---- MODULE Spec2Model ----
(***************************************************************************)
(* Co-purchase graph (copurchase_graph.py), its construction from baskets  *)
(* (transaction_loader.py) and the query algorithms over the raw adjacency *)
(* dictionary (graph_algorithms.py).                                       *)
(*                                                                         *)
(* A Python dict is modelled as the sequence of its <<key, value>> entries *)
(* in insertion order, because the algorithms observe iteration order.     *)
(***************************************************************************)
EXTENDS Integers, Sequences, FiniteSets, TLC

\* ---------------------------------------------------------------- bounds
MaxWeight == 3
MaxCount == 2
MaxBaskets == 2
MaxBasketLen == 3

\* Item labels given to add_item / add_co_purchase and found in baskets.
Items == {"bread", "butter", "milk"}
\* Query arguments: the items above and a label that is never added.
QueryItems == Items \cup {"nonexistent"}
\* Integer arguments (k, top_n, min_support), negative ones included.
Counts == (0 - MaxCount)..MaxCount

None == "None"
KeyError == "KeyError"

\* Python's str "<" on the labels above (lexicographic code point order).
StrRank == [bread |-> 1, butter |-> 2, milk |-> 3, nonexistent |-> 4]
StrLess(a, b) == StrRank[a] < StrRank[b]

\* ------------------------------------------------------ dict primitives
DictKeys(d) == [i \in 1..Len(d) |-> d[i][1]]
DictKeySet(d) == {d[i][1] : i \in 1..Len(d)}
DictHas(d, k) == \E i \in 1..Len(d) : d[i][1] = k
DictIndex(d, k) == d[CHOOSE i \in 1..Len(d) : d[i][1] = k][2]
DictGet(d, k, default) == IF DictHas(d, k) THEN DictIndex(d, k) ELSE default
DictSet(d, k, v) ==
    IF DictHas(d, k)
    THEN [i \in 1..Len(d) |-> IF d[i][1] = k THEN <<k, v>> ELSE d[i]]
    ELSE Append(d, <<k, v>>)

\* ------------------------------------------------------ list built-ins
\* Faulty variant: the last k entries instead of the first k.
SliceFromEnd(s, k) ==
    LET n == Len(s)
        m == IF k < 0 THEN 0 ELSE IF k > n THEN n ELSE k
    IN  SubSeq(s, n - m + 1, n)

\* Python's seq[:k]: a negative k counts from the end.
SliceTo(s, k) ==
    LET n == Len(s)
        stop == IF k < 0 THEN (IF n + k < 0 THEN 0 ELSE n + k)
                ELSE IF k > n THEN n ELSE k
    IN  SubSeq(s, 1, stop)

\* sorted(..., key=lambda x: x[k], reverse=True) and list.sort with the same
\* arguments (k counted from 1 here): Python's sort is stable, and stays so
\* with reverse=True, so entries of equal key keep their order.
RECURSIVE sort_reverse(_, _)
sort_reverse(seq, k) ==
    IF Len(seq) = 0 THEN seq
    ELSE LET last == seq[Len(seq)]
             init == sort_reverse(SubSeq(seq, 1, Len(seq) - 1), k)
             ge(x) == x[k] >= last[k]
             lt(x) == x[k] < last[k]
         IN  SelectSeq(init, ge) \o <<last>> \o SelectSeq(init, lt)

\* sorted(keys) on strings.
RECURSIVE sorted_str(_)
sorted_str(seq) ==
    IF Len(seq) = 0 THEN seq
    ELSE LET last == seq[Len(seq)]
             init == sorted_str(SubSeq(seq, 1, Len(seq) - 1))
             le(x) == ~StrLess(last, x)
             gt(x) == StrLess(last, x)
         IN  SelectSeq(init, le) \o <<last>> \o SelectSeq(init, gt)

\* ------------------------------------------------------ CoPurchaseGraph
VARIABLES
    adjacency,   \* CoPurchaseGraph._adjacency: dict item -> dict item -> weight
    call,        \* the call the caller has just made: op, args, returned value
    passed,      \* history: items handed to add_item / add_co_purchase(a # b)
    processed    \* history: per basket consumed by build_graph_from_file, the
                 \* items it contains and whether one of them is repeated

vars == <<adjacency, call, passed, processed>>

add_item(adj, item) ==
    IF ~DictHas(adj, item) THEN DictSet(adj, item, <<>>) ELSE adj

\* Faulty variants of add_co_purchase, used to test the properties below.
add_co_purchase_one_direction(adj, item1, item2) ==
    IF item1 = item2 THEN adj
    ELSE LET a1 == IF ~DictHas(adj, item1) THEN DictSet(adj, item1, <<>>) ELSE adj
             a2 == IF ~DictHas(a1, item2) THEN DictSet(a1, item2, <<>>) ELSE a1
         IN  DictSet(a2, item1,
                 DictSet(DictIndex(a2, item1), item2,
                         DictGet(DictIndex(a2, item1), item2, 0) + 1))

add_co_purchase_overwrite(adj, item1, item2) ==
    IF item1 = item2 THEN adj
    ELSE LET a1 == IF ~DictHas(adj, item1) THEN DictSet(adj, item1, <<>>) ELSE adj
             a2 == IF ~DictHas(a1, item2) THEN DictSet(a1, item2, <<>>) ELSE a1
             a3 == DictSet(a2, item1, DictSet(DictIndex(a2, item1), item2, 1))
         IN  DictSet(a3, item2, DictSet(DictIndex(a3, item2), item1, 1))

add_co_purchase_no_self_check(adj, item1, item2) ==
    LET a1 == IF ~DictHas(adj, item1) THEN DictSet(adj, item1, <<>>) ELSE adj
        a2 == IF ~DictHas(a1, item2) THEN DictSet(a1, item2, <<>>) ELSE a1
        a3 == DictSet(a2, item1,
                  DictSet(DictIndex(a2, item1), item2,
                          DictGet(DictIndex(a2, item1), item2, 0) + 1))
    IN  DictSet(a3, item2,
            DictSet(DictIndex(a3, item2), item1,
                    DictGet(DictIndex(a3, item2), item1, 0) + 1))

add_co_purchase(adj, item1, item2) ==
    IF item1 = item2 THEN adj
    ELSE LET a1 == IF ~DictHas(adj, item1) THEN DictSet(adj, item1, <<>>) ELSE adj
             a2 == IF ~DictHas(a1, item2) THEN DictSet(a1, item2, <<>>) ELSE a1
             a3 == DictSet(a2, item1,
                       DictSet(DictIndex(a2, item1), item2,
                               DictGet(DictIndex(a2, item1), item2, 0) + 1))
         IN  DictSet(a3, item2,
                 DictSet(DictIndex(a3, item2), item1,
                         DictGet(DictIndex(a3, item2), item1, 0) + 1))

items(adj) == sorted_str(DictKeys(adj))

\* Faulty variant: setdefault instead of get, which inserts the unknown item.
neighbours_graph_setdefault(adj, item) == add_item(adj, item)

\* The graph after neighbours(item): dict.get(item, {}) does not insert.
neighbours_graph(adj, item) == adj

neighbours(adj, item) == DictGet(adj, item, <<>>)

edge_weight(adj, item1, item2) ==
    IF ~DictHas(adj, item1) THEN 0
    ELSE DictGet(DictIndex(adj, item1), item2, 0)

has_item(adj, item) == DictHas(adj, item)

has_edge(adj, item1, item2) ==
    IF ~DictHas(adj, item1) THEN FALSE
    ELSE DictHas(DictIndex(adj, item1), item2)

num_items(adj) == Len(adj)

RECURSIVE SumLens(_, _)
SumLens(adj, i) == IF i > Len(adj) THEN 0 ELSE Len(adj[i][2]) + SumLens(adj, i + 1)

\* Faulty variant: the two stored directions are not halved.
num_edges_not_halved(adj) == SumLens(adj, 1)

num_edges(adj) == SumLens(adj, 1) \div 2

top_neighbours(adj, item, k) == SliceTo(sort_reverse(neighbours(adj, item), 2), k)

\* ------------------------------------------------------ graph_algorithms
\* Faulty variant: a discovered neighbour is never enqueued.
RECURSIVE bfs_for_no_enqueue(_, _, _, _, _)
bfs_for_no_enqueue(nbrs, i, visited, related, queue) ==
    IF i > Len(nbrs) THEN <<visited, related, queue>>
    ELSE IF nbrs[i] \notin visited
         THEN bfs_for_no_enqueue(nbrs, i + 1, visited \cup {nbrs[i]},
                                 Append(related, nbrs[i]), queue)
         ELSE bfs_for_no_enqueue(nbrs, i + 1, visited, related, queue)

RECURSIVE bfs_for(_, _, _, _, _)
bfs_for(nbrs, i, visited, related, queue) ==
    IF i > Len(nbrs) THEN <<visited, related, queue>>
    ELSE IF nbrs[i] \notin visited
         THEN bfs_for(nbrs, i + 1, visited \cup {nbrs[i]},
                      Append(related, nbrs[i]), Append(queue, nbrs[i]))
         ELSE bfs_for(nbrs, i + 1, visited, related, queue)

RECURSIVE bfs_while(_, _, _, _)
bfs_while(graph, visited, related, queue) ==
    IF queue = <<>> THEN related
    ELSE LET current == Head(queue)
         IN  IF ~DictHas(graph, current) THEN KeyError
             ELSE LET r == bfs_for(DictKeys(DictIndex(graph, current)), 1,
                                   visited, related, Tail(queue))
                  IN  bfs_while(graph, r[1], r[2], r[3])

\* Faulty variant: the "start_item not in graph" test is missing.
bfs_related_items_unchecked(graph, start_item) ==
    bfs_while(graph, {}, <<>>, <<start_item>>)

bfs_related_items(graph, start_item) ==
    IF ~DictHas(graph, start_item) THEN <<>>
    ELSE bfs_while(graph, {}, <<>>, <<start_item>>)

\* _dfs and its for loop; the pair <<visited, related>> stands for the two
\* closure variables, or KeyError once graph[node] fails.
RECURSIVE dfs_for(_, _, _, _, _)
RECURSIVE dfs_visit(_, _, _, _)
dfs_for(graph, nbrs, i, visited, related) ==
    IF i > Len(nbrs) THEN <<visited, related>>
    ELSE IF nbrs[i] \notin visited
         THEN LET r == dfs_visit(graph, nbrs[i], visited \cup {nbrs[i]},
                                 Append(related, nbrs[i]))
              IN  IF r = KeyError THEN KeyError
                  ELSE dfs_for(graph, nbrs, i + 1, r[1], r[2])
         ELSE dfs_for(graph, nbrs, i + 1, visited, related)

dfs_visit(graph, node, visited, related) ==
    IF ~DictHas(graph, node) THEN KeyError
    ELSE dfs_for(graph, DictKeys(DictIndex(graph, node)), 1, visited, related)

dfs_related_items(graph, start_item) ==
    IF DictHas(graph, start_item)
    THEN LET r == dfs_visit(graph, start_item, {}, <<>>)
         IN  IF r = KeyError THEN KeyError ELSE r[2]
    ELSE <<>>

RECURSIVE frequent_pairs_loop(_, _, _)
frequent_pairs_loop(graph, min_support, i) ==
    IF i > Len(graph) THEN <<>>
    ELSE LET item == graph[i][1]
             keep(e) == StrLess(item, e[1]) /\ e[2] >= min_support
             sel == SelectSeq(graph[i][2], keep)
         IN  [j \in 1..Len(sel) |-> <<<<item, sel[j][1]>>, sel[j][2]>>]
                 \o frequent_pairs_loop(graph, min_support, i + 1)

\* Faulty variant: "weight > min_support" instead of ">=".
frequent_pairs_strict(graph, min_support) ==
    frequent_pairs_loop(graph, min_support + 1, 1)

frequent_pairs(graph, min_support) == frequent_pairs_loop(graph, min_support, 1)

\* Faulty variant: ascending instead of descending order.
RECURSIVE quick_sort_items_ascending(_)
quick_sort_items_ascending(pairs) ==
    IF Len(pairs) <= 1 THEN pairs
    ELSE LET pivot == pairs[(Len(pairs) \div 2) + 1][2]
             gt(p) == p[2] > pivot
             eq(p) == p[2] = pivot
             lt(p) == p[2] < pivot
         IN  quick_sort_items_ascending(SelectSeq(pairs, lt)) \o SelectSeq(pairs, eq)
                 \o quick_sort_items_ascending(SelectSeq(pairs, gt))

\* Faulty variant: the pivot entry is taken out and put ahead of the entries
\* of equal weight, so equal weights do not keep their order.
RECURSIVE quick_sort_items_pivot_out(_)
quick_sort_items_pivot_out(pairs) ==
    IF Len(pairs) <= 1 THEN pairs
    ELSE LET mid == (Len(pairs) \div 2) + 1
             pivot == pairs[mid][2]
             rest == SubSeq(pairs, 1, mid - 1) \o SubSeq(pairs, mid + 1, Len(pairs))
             gt(p) == p[2] > pivot
             le(p) == p[2] <= pivot
         IN  quick_sort_items_pivot_out(SelectSeq(rest, gt)) \o <<pairs[mid]>>
                 \o quick_sort_items_pivot_out(SelectSeq(rest, le))

RECURSIVE quick_sort_items(_)
quick_sort_items(pairs) ==
    IF Len(pairs) <= 1 THEN pairs
    ELSE LET pivot == pairs[(Len(pairs) \div 2) + 1][2]
             gt(p) == p[2] > pivot
             eq(p) == p[2] = pivot
             lt(p) == p[2] < pivot
         IN  quick_sort_items(SelectSeq(pairs, gt)) \o SelectSeq(pairs, eq)
                 \o quick_sort_items(SelectSeq(pairs, lt))

RECURSIVE all_pairs_loop(_, _)
all_pairs_loop(graph, i) ==
    IF i > Len(graph) THEN <<>>
    ELSE LET item == graph[i][1]
             keep(e) == StrLess(item, e[1])
             sel == SelectSeq(graph[i][2], keep)
         IN  [j \in 1..Len(sel) |-> <<<<item, sel[j][1]>>, sel[j][2]>>]
                 \o all_pairs_loop(graph, i + 1)

top_product_bundles(graph, k) ==
    SliceTo(quick_sort_items(all_pairs_loop(graph, 1)), k)

\* Faulty variant: the neighbours are truncated without being sorted.
recommend_items_unsorted(graph, item, top_n) ==
    IF ~DictHas(graph, item) THEN <<>>
    ELSE SliceTo(DictIndex(graph, item), top_n)

recommend_items(graph, item, top_n) ==
    IF ~DictHas(graph, item) THEN <<>>
    ELSE SliceTo(quick_sort_items(DictIndex(graph, item)), top_n)

RECURSIVE edges_loop(_, _)
edges_loop(graph, i) ==
    IF i > Len(graph) THEN <<>>
    ELSE LET item == graph[i][1]
             keep(e) == StrLess(item, e[1])
             sel == SelectSeq(graph[i][2], keep)
         IN  [j \in 1..Len(sel) |-> <<item, sel[j][1], sel[j][2]>>]
                 \o edges_loop(graph, i + 1)

strongest_associations(graph, top_n) ==
    SliceTo(sort_reverse(edges_loop(graph, 1), 3), top_n)

\* ------------------------------------------------------ transaction_loader
\* list(set(basket)): the distinct items of the basket, in an order that
\* depends on string hashing, so every order is a possible one.
SetOf(basket) == {basket[i] : i \in 1..Len(basket)}
ListOfSet(S) ==
    {u \in [1..Cardinality(S) -> S] : \A i, j \in 1..Cardinality(S) : u[i] = u[j] => i = j}
\* Faulty variant: the basket is paired without removing its duplicates.
unique_items_keep_duplicates(basket) == {basket}

unique_items_of(basket) == ListOfSet(SetOf(basket))

RECURSIVE add_items_loop(_, _, _)
add_items_loop(adj, unique_items, i) ==
    IF i > Len(unique_items) THEN adj
    ELSE add_items_loop(add_item(adj, unique_items[i]), unique_items, i + 1)

\* for itemA, itemB in combinations(unique_items, 2)
RECURSIVE combinations_loop(_, _, _, _)
combinations_loop(adj, unique_items, i, j) ==
    IF i >= Len(unique_items) THEN adj
    ELSE IF j > Len(unique_items) THEN combinations_loop(adj, unique_items, i + 1, i + 2)
    ELSE combinations_loop(add_co_purchase(adj, unique_items[i], unique_items[j]),
                           unique_items, i, j + 1)

build_basket(adj, unique_items) ==
    combinations_loop(add_items_loop(adj, unique_items, 1), unique_items, 1, 2)

Baskets == UNION {[1..n -> Items] : n \in 1..MaxBasketLen}

\* ---------------------------------------------------------------- actions
Idle == [op |-> "idle", args |-> <<>>, ret |-> None]

Init ==
    /\ adjacency = <<>>
    /\ call = Idle
    /\ passed = {}
    /\ processed = <<>>

AddItem(item) ==
    /\ call = Idle
    /\ adjacency' = add_item(adjacency, item)
    /\ call' = [op |-> "add_item", args |-> <<item>>, ret |-> None]
    /\ passed' = passed \cup {item}
    /\ UNCHANGED processed

AddCoPurchase(item1, item2) ==
    /\ call = Idle
    /\ edge_weight(adjacency, item1, item2) < MaxWeight
    /\ adjacency' = add_co_purchase(adjacency, item1, item2)
    /\ call' = [op |-> "add_co_purchase", args |-> <<item1, item2>>, ret |-> None]
    /\ passed' = IF item1 # item2 THEN passed \cup {item1, item2} ELSE passed
    /\ UNCHANGED processed

BfsRelatedItems(start_item) ==
    /\ call = Idle
    /\ call' = [op |-> "bfs_related_items", args |-> <<start_item>>,
                ret |-> bfs_related_items(adjacency, start_item)]
    /\ UNCHANGED <<adjacency, passed, processed>>

DfsRelatedItems(start_item) ==
    /\ call = Idle
    /\ call' = [op |-> "dfs_related_items", args |-> <<start_item>>,
                ret |-> dfs_related_items(adjacency, start_item)]
    /\ UNCHANGED <<adjacency, passed, processed>>

FrequentPairs(min_support) ==
    /\ call = Idle
    /\ call' = [op |-> "frequent_pairs", args |-> <<min_support>>,
                ret |-> frequent_pairs(adjacency, min_support)]
    /\ UNCHANGED <<adjacency, passed, processed>>

TopProductBundles(k) ==
    /\ call = Idle
    /\ call' = [op |-> "top_product_bundles", args |-> <<k>>,
                ret |-> top_product_bundles(adjacency, k)]
    /\ UNCHANGED <<adjacency, passed, processed>>

RecommendItems(item, top_n) ==
    /\ call = Idle
    /\ call' = [op |-> "recommend_items", args |-> <<item, top_n>>,
                ret |-> recommend_items(adjacency, item, top_n)]
    /\ UNCHANGED <<adjacency, passed, processed>>

StrongestAssociations(top_n) ==
    /\ call = Idle
    /\ call' = [op |-> "strongest_associations", args |-> <<top_n>>,
                ret |-> strongest_associations(adjacency, top_n)]
    /\ UNCHANGED <<adjacency, passed, processed>>

ItemsList ==
    /\ call = Idle
    /\ call' = [op |-> "items", args |-> <<>>, ret |-> items(adjacency)]
    /\ UNCHANGED <<adjacency, passed, processed>>

Neighbours(item) ==
    /\ call = Idle
    /\ call' = [op |-> "neighbours", args |-> <<item>>,
                ret |-> neighbours(adjacency, item)]
    /\ adjacency' = neighbours_graph(adjacency, item)
    /\ UNCHANGED <<passed, processed>>

EdgeWeight(item1, item2) ==
    /\ call = Idle
    /\ call' = [op |-> "edge_weight", args |-> <<item1, item2>>,
                ret |-> edge_weight(adjacency, item1, item2)]
    /\ UNCHANGED <<adjacency, passed, processed>>

HasItem(item) ==
    /\ call = Idle
    /\ call' = [op |-> "has_item", args |-> <<item>>,
                ret |-> has_item(adjacency, item)]
    /\ UNCHANGED <<adjacency, passed, processed>>

HasEdge(item1, item2) ==
    /\ call = Idle
    /\ call' = [op |-> "has_edge", args |-> <<item1, item2>>,
                ret |-> has_edge(adjacency, item1, item2)]
    /\ UNCHANGED <<adjacency, passed, processed>>

NumItems ==
    /\ call = Idle
    /\ call' = [op |-> "num_items", args |-> <<>>, ret |-> num_items(adjacency)]
    /\ UNCHANGED <<adjacency, passed, processed>>

NumEdges ==
    /\ call = Idle
    /\ call' = [op |-> "num_edges", args |-> <<>>, ret |-> num_edges(adjacency)]
    /\ UNCHANGED <<adjacency, passed, processed>>

\* top_neighbours reads the graph through self.neighbours(item).
TopNeighbours(item, k) ==
    /\ call = Idle
    /\ call' = [op |-> "top_neighbours", args |-> <<item, k>>,
                ret |-> top_neighbours(adjacency, item, k)]
    /\ adjacency' = neighbours_graph(adjacency, item)
    /\ UNCHANGED <<passed, processed>>

\* The caller is done with the returned value and goes on to its next call.
Return ==
    /\ call # Idle
    /\ call' = Idle
    /\ UNCHANGED <<adjacency, passed, processed>>

Next ==
    \/ \E item \in Items : AddItem(item)
    \/ \E item1, item2 \in Items : AddCoPurchase(item1, item2)
    \/ \E start_item \in QueryItems : BfsRelatedItems(start_item)
    \/ \E start_item \in QueryItems : DfsRelatedItems(start_item)
    \/ \E min_support \in Counts : FrequentPairs(min_support)
    \/ \E k \in Counts : TopProductBundles(k)
    \/ \E item \in QueryItems, top_n \in Counts : RecommendItems(item, top_n)
    \/ \E top_n \in Counts : StrongestAssociations(top_n)
    \/ ItemsList
    \/ \E item \in QueryItems : Neighbours(item)
    \/ \E item1, item2 \in QueryItems : EdgeWeight(item1, item2)
    \/ \E item \in QueryItems : HasItem(item)
    \/ \E item1, item2 \in QueryItems : HasEdge(item1, item2)
    \/ NumItems
    \/ NumEdges
    \/ \E item \in QueryItems, k \in Counts : TopNeighbours(item, k)
    \/ Return

Spec == Init /\ [][Next]_vars

\* build_graph_from_file: one iteration of "for basket in transactions.values()".
BuildBasket(basket, unique_items) ==
    /\ Len(processed) < MaxBaskets
    /\ adjacency' = build_basket(adjacency, unique_items)
    /\ LET contained == {x \in Items : \E i \in 1..Len(basket) : basket[i] = x}
       IN  /\ processed' = Append(processed,
                               [items |-> contained,
                                repeated |-> \E i, j \in 1..Len(basket) :
                                                 i # j /\ basket[i] = basket[j]])
           /\ passed' = passed \cup contained
    /\ UNCHANGED call

NextBuild ==
    \E basket \in Baskets : \E unique_items \in unique_items_of(basket) :
        BuildBasket(basket, unique_items)

SpecBuild == Init /\ [][NextBuild]_vars

\* ================================================================ properties
Range(seq) == {seq[i] : i \in 1..Len(seq)}
NoDuplicates(seq) == \A i, j \in 1..Len(seq) : seq[i] = seq[j] => i = j
IsCall(op) == call.op = op

\* C1: in every graph state reached by add_item / add_co_purchase calls,
\* edge_weight(A,B) = edge_weight(B,A) for all items A, B, present or absent.
C1_Symmetry ==
    \A A, B \in QueryItems :
        edge_weight(adjacency, A, B) = edge_weight(adjacency, B, A)

C1_Witness ==
    /\ IsCall("add_co_purchase")
    /\ call.args[1] # call.args[2]
    /\ edge_weight(adjacency, call.args[1], call.args[2]) >= 2
    /\ num_items(adjacency) = 3

\* C2: for a # b, add_co_purchase(a, b) makes a and b nodes, raises
\* edge_weight(a,b) and edge_weight(b,a) by exactly 1, and leaves every other
\* pair's weight and every other item's membership unchanged.
C2_Effect ==
    \A a, b \in Items :
        (a # b /\ call'.op = "add_co_purchase" /\ call'.args = <<a, b>>) =>
            /\ has_item(adjacency', a) /\ has_item(adjacency', b)
            /\ edge_weight(adjacency', a, b) = edge_weight(adjacency, a, b) + 1
            /\ edge_weight(adjacency', b, a) = edge_weight(adjacency, b, a) + 1
            /\ \A x, y \in QueryItems :
                   {x, y} # {a, b} =>
                       edge_weight(adjacency', x, y) = edge_weight(adjacency, x, y)
            /\ \A x \in QueryItems \ {a, b} :
                   has_item(adjacency', x) = has_item(adjacency, x)

C2_AddCoPurchaseFrame == [][C2_Effect]_vars

C2_Witness ==
    /\ IsCall("add_co_purchase")
    /\ call.args[1] # call.args[2]
    /\ edge_weight(adjacency, call.args[1], call.args[2]) = 2
    /\ \E x \in Items \ {call.args[1], call.args[2]} :
           edge_weight(adjacency, x, call.args[1]) = 1

\* C3: no self-loops: edge_weight(A,A) = 0 and has_edge(A,A) is false for
\* every item A in every reachable state, and a call add_co_purchase(a, a)
\* leaves the whole graph unchanged.
C3_NoSelfLoopState ==
    \A A \in QueryItems :
        edge_weight(adjacency, A, A) = 0 /\ ~has_edge(adjacency, A, A)

C3_SelfCallNoOp ==
    (call'.op = "add_co_purchase" /\ call'.args[1] = call'.args[2]) =>
        adjacency' = adjacency

C3_NoSelfLoops == [](C3_NoSelfLoopState) /\ [][C3_SelfCallNoOp]_vars

C3_Witness ==
    /\ IsCall("add_co_purchase")
    /\ call.args[1] = call.args[2]
    /\ ~has_item(adjacency, call.args[1])
    /\ num_edges(adjacency) >= 1

\* C4: num_edges() is the number of distinct unordered pairs {A,B} with
\* edge_weight(A,B) > 0, and num_items() is the number of distinct items
\* ever passed to add_item or to add_co_purchase with a # b.
EdgePairs(adj) ==
    {S \in SUBSET QueryItems :
        \E A, B \in S : S = {A, B} /\ edge_weight(adj, A, B) > 0}

C4_Counts ==
    /\ num_edges(adjacency) = Cardinality(EdgePairs(adjacency))
    /\ num_items(adjacency) = Cardinality(passed)

C4_Witness ==
    /\ num_edges(adjacency) = 2
    /\ num_items(adjacency) = 3
    /\ \E A, B \in Items : edge_weight(adjacency, A, B) = 3

\* C5: after build_graph_from_file has processed any sequence of baskets,
\* edge_weight(A,B) for distinct A, B is the number of baskets containing
\* both (repeats inside one basket counted once), and every item of every
\* basket is a node.
CoOccurrences(A, B) ==
    Cardinality({n \in 1..Len(processed) :
                    A \in processed[n].items /\ B \in processed[n].items})

C5_BuildWeights ==
    /\ \A A, B \in Items :
           A # B => edge_weight(adjacency, A, B) = CoOccurrences(A, B)
    /\ \A n \in 1..Len(processed) : \A x \in processed[n].items :
           has_item(adjacency, x)

C5_Witness ==
    /\ Len(processed) = 2
    /\ processed[1] = [items |-> {"bread", "milk"}, repeated |-> TRUE]
    /\ processed[2].items = {"butter"}
    /\ edge_weight(adjacency, "bread", "milk") = 1
    /\ has_item(adjacency, "butter")
    /\ neighbours(adjacency, "butter") = <<>>

\* C6: the sequences returned by bfs_related_items and dfs_related_items
\* never contain start_item itself.
C6_StartExcluded ==
    (IsCall("bfs_related_items") \/ IsCall("dfs_related_items")) =>
        call.args[1] \notin Range(call.ret)

\* C7: for a start item present in the graph, each traversal returns every
\* item other than the start that is connected to the start, returns no item
\* that is not connected to it, lists each returned item once, and the two
\* traversals return the same set.
RECURSIVE Closure(_, _)
Closure(adj, S) ==
    LET T == S \cup {y \in QueryItems : \E x \in S : edge_weight(adj, x, y) > 0}
    IN  IF T = S THEN S ELSE Closure(adj, T)

Connected(adj, start) == Closure(adj, {start})

C7_Reachability ==
    (IsCall("bfs_related_items") \/ IsCall("dfs_related_items")) =>
        LET start == call.args[1]
        IN  has_item(adjacency, start) =>
                /\ Connected(adjacency, start) \ {start} \subseteq Range(call.ret)
                /\ Range(call.ret) \subseteq Connected(adjacency, start)
                /\ NoDuplicates(call.ret)
                /\ Range(bfs_related_items(adjacency, start))
                       = Range(dfs_related_items(adjacency, start))

C7_WitnessBfs ==
    /\ IsCall("bfs_related_items")
    /\ call.args[1] = "bread"
    /\ edge_weight(adjacency, "bread", "milk") > 0
    /\ edge_weight(adjacency, "milk", "butter") > 0
    /\ edge_weight(adjacency, "bread", "butter") = 0
    /\ "butter" \in Range(call.ret)

\* Every returned entry is ((A,B), w) with A sorting before B, w the true
\* weight of the pair and w >= min_support.
C8_EntriesSound(ret, min_support) ==
    \A i \in 1..Len(ret) :
        LET A == ret[i][1][1]
            B == ret[i][1][2]
        IN  /\ StrLess(A, B)
            /\ ret[i][2] = edge_weight(adjacency, A, B)
            /\ ret[i][2] >= min_support

\* C8 as stated: frequent_pairs returns exactly the unordered pairs {A,B} of
\* items whose edge weight is >= min_support, each once as (A,B) with A
\* sorting before B and with its true weight, for every integer min_support.
C8_Original ==
    IsCall("frequent_pairs") =>
        /\ C8_EntriesSound(call.ret, call.args[1])
        /\ \A i, j \in 1..Len(call.ret) : call.ret[i][1] = call.ret[j][1] => i = j
        /\ \A A, B \in DictKeySet(adjacency) :
               (StrLess(A, B) /\ edge_weight(adjacency, A, B) >= call.args[1]) =>
                   \E i \in 1..Len(call.ret) : call.ret[i][1] = <<A, B>>

\* C8 (amended): frequent_pairs returns exactly the unordered pairs {A,B}
\* that are joined by an edge and whose weight is >= min_support, each once
\* as (A,B) with A sorting before B and with its true weight.
C8_FrequentPairsContent ==
    IsCall("frequent_pairs") =>
        /\ C8_EntriesSound(call.ret, call.args[1])
        /\ \A i, j \in 1..Len(call.ret) : call.ret[i][1] = call.ret[j][1] => i = j
        /\ \A A, B \in DictKeySet(adjacency) :
               (/\ StrLess(A, B)
                /\ has_edge(adjacency, A, B)
                /\ edge_weight(adjacency, A, B) >= call.args[1]) =>
                   \E i \in 1..Len(call.ret) : call.ret[i][1] = <<A, B>>

C8_Witness ==
    /\ IsCall("frequent_pairs")
    /\ call.args[1] = 2
    /\ Len(call.ret) = 2
    /\ num_edges(adjacency) = 3

\* C9: the list returned by frequent_pairs is ordered by descending weight.
C9_Descending ==
    IsCall("frequent_pairs") =>
        \A i \in 1..(Len(call.ret) - 1) : call.ret[i][2] >= call.ret[i + 1][2]

\* C10: top_product_bundles(graph, k) is empty for every k <= 0 and
\* recommend_items(graph, item, top_n) is empty for every top_n <= 0.
C10_NonPositiveEmpty ==
    /\ (IsCall("top_product_bundles") /\ call.args[1] <= 0) => call.ret = <<>>
    /\ (IsCall("recommend_items") /\ call.args[2] <= 0) => call.ret = <<>>

\* C11: for k >= 1, top_product_bundles(graph, k) returns exactly min(k, E)
\* entries (E the number of undirected edges), each a distinct edge (A,B)
\* with A sorting before B and its true weight, with weights non-increasing,
\* and no edge left out is heavier than a returned one.
Min(a, b) == IF a <= b THEN a ELSE b
NonIncreasing(ret) ==
    \A i \in 1..(Len(ret) - 1) : ret[i][2] >= ret[i + 1][2]

C11_TopBundlesRanking ==
    (IsCall("top_product_bundles") /\ call.args[1] >= 1) =>
        /\ Len(call.ret) = Min(call.args[1], Cardinality(EdgePairs(adjacency)))
        /\ \A i \in 1..Len(call.ret) :
               LET A == call.ret[i][1][1]
                   B == call.ret[i][1][2]
               IN  /\ StrLess(A, B)
                   /\ has_edge(adjacency, A, B)
                   /\ call.ret[i][2] = edge_weight(adjacency, A, B)
        /\ \A i, j \in 1..Len(call.ret) : call.ret[i][1] = call.ret[j][1] => i = j
        /\ NonIncreasing(call.ret)
        /\ \A A, B \in QueryItems :
               (/\ edge_weight(adjacency, A, B) > 0
                /\ \A i \in 1..Len(call.ret) : call.ret[i][1] \notin {<<A, B>>, <<B, A>>}) =>
                   \A i \in 1..Len(call.ret) : edge_weight(adjacency, A, B) <= call.ret[i][2]

C11_Witness ==
    /\ IsCall("top_product_bundles")
    /\ call.args[1] = 2
    /\ Cardinality(EdgePairs(adjacency)) = 3
    /\ Len(call.ret) = 2
    /\ call.ret[1][2] > call.ret[2][2]
    /\ all_pairs_loop(adjacency, 1)[1][2] < call.ret[2][2]

\* C12: for an item present in the graph with d neighbours and top_n >= 1,
\* recommend_items returns exactly min(top_n, d) entries, each a distinct
\* neighbour of the item with its edge weight, with weights non-increasing,
\* and no neighbour left out is heavier than a returned one.
C12_RecommendRanking ==
    (/\ IsCall("recommend_items")
     /\ has_item(adjacency, call.args[1])
     /\ call.args[2] >= 1) =>
        LET item == call.args[1]
            nbrs == {x \in QueryItems : edge_weight(adjacency, item, x) > 0}
        IN  /\ Len(call.ret) = Min(call.args[2], Cardinality(nbrs))
            /\ \A i \in 1..Len(call.ret) :
                   /\ call.ret[i][1] \in nbrs
                   /\ call.ret[i][2] = edge_weight(adjacency, item, call.ret[i][1])
            /\ \A i, j \in 1..Len(call.ret) : call.ret[i][1] = call.ret[j][1] => i = j
            /\ NonIncreasing(call.ret)
            /\ \A x \in nbrs :
                   (\A i \in 1..Len(call.ret) : call.ret[i][1] # x) =>
                       \A i \in 1..Len(call.ret) :
                           edge_weight(adjacency, item, x) <= call.ret[i][2]

C12_Witness ==
    /\ IsCall("recommend_items")
    /\ call.args = <<"bread", 1>>
    /\ Len(neighbours(adjacency, "bread")) = 2
    /\ Len(call.ret) = 1
    /\ call.ret[1] = neighbours(adjacency, "bread")[2]
    /\ call.ret[1][2] > neighbours(adjacency, "bread")[1][2]

\* C13: for every n >= 0, strongest_associations(graph, n) is the list
\* top_product_bundles(graph, n) with each ((A,B), w) flattened to (A,B,w),
\* entry for entry in the same order, ties included.
Flatten(bundles) ==
    [i \in 1..Len(bundles) |->
        <<bundles[i][1][1], bundles[i][1][2], bundles[i][2]>>]

C13_SameRanking ==
    (IsCall("strongest_associations") /\ call.args[1] >= 0) =>
        call.ret = Flatten(top_product_bundles(adjacency, call.args[1]))

C13_Witness ==
    /\ IsCall("strongest_associations")
    /\ call.args[1] = 2
    /\ Cardinality(EdgePairs(adjacency)) = 3
    /\ Len(call.ret) = 2
    /\ call.ret[1][3] = call.ret[2][3]
    /\ \E A, B \in Items :
           /\ StrLess(A, B)
           /\ edge_weight(adjacency, A, B) = call.ret[1][3]
           /\ <<A, B, call.ret[1][3]>> \notin Range(call.ret)

\* C14: for every k >= 0, top_product_bundles(graph, k) is a prefix of
\* top_product_bundles(graph, k + 1) on the same graph.
IsPrefix(s, t) == Len(s) <= Len(t) /\ s = SubSeq(t, 1, Len(s))

C14_PrefixStable ==
    (IsCall("top_product_bundles") /\ call.args[1] >= 0) =>
        IsPrefix(call.ret, top_product_bundles(adjacency, call.args[1] + 1))

C14_Witness ==
    /\ IsCall("top_product_bundles")
    /\ call.args[1] = 1
    /\ Len(call.ret) = 1
    /\ Len(top_product_bundles(adjacency, 2)) = 2
    /\ Cardinality(EdgePairs(adjacency)) = 3

\* C15: no query changes the graph: after items, neighbours, edge_weight,
\* has_item, has_edge, num_items, num_edges, top_neighbours,
\* bfs_related_items, dfs_related_items, frequent_pairs, top_product_bundles,
\* recommend_items or strongest_associations, with present or unknown items,
\* the node set and every edge weight are as before; only add_item and
\* add_co_purchase change the graph.
QueryOps ==
    {"items", "neighbours", "edge_weight", "has_item", "has_edge", "num_items",
     "num_edges", "top_neighbours", "bfs_related_items", "dfs_related_items",
     "frequent_pairs", "top_product_bundles", "recommend_items",
     "strongest_associations"}

C15_Step ==
    /\ call'.op \in QueryOps => adjacency' = adjacency
    /\ adjacency' # adjacency => call'.op \in {"add_item", "add_co_purchase"}

C15_QueriesReadOnly == [][C15_Step]_vars

C15_Witness ==
    /\ IsCall("top_neighbours")
    /\ call.args[1] = "nonexistent"
    /\ num_edges(adjacency) = 2
    /\ DictKeySet(adjacency) = Items

\* C16: in every reachable graph state, the empty graph included,
\* neighbours(x), recommend_items(g, x), bfs_related_items(g, x) and
\* dfs_related_items(g, x) return an empty container for an item x that is
\* not in the graph, edge_weight involving such an x returns 0, and no query
\* ends in an error: every neighbour stored in the graph is itself a node, so
\* a traversal never raises KeyError.
EmptyForAbsentOps ==
    {"neighbours", "recommend_items", "bfs_related_items", "dfs_related_items"}

C16_AbsentAndTotal ==
    /\ \A i \in 1..Len(adjacency) : \A j \in 1..Len(adjacency[i][2]) :
           has_item(adjacency, adjacency[i][2][j][1])
    /\ (call.op \in EmptyForAbsentOps /\ ~has_item(adjacency, call.args[1])) =>
           <<>> = call.ret
    /\ (/\ IsCall("edge_weight")
        /\ (~has_item(adjacency, call.args[1]) \/ ~has_item(adjacency, call.args[2]))) =>
           call.ret = 0
    /\ (IsCall("bfs_related_items") \/ IsCall("dfs_related_items")) =>
           call.ret # KeyError

C16_Witness ==
    /\ IsCall("bfs_related_items")
    /\ call.args[1] = "milk"
    /\ ~has_item(adjacency, "milk")
    /\ edge_weight(adjacency, "bread", "butter") = 2
    /\ call.ret = <<>>
====
